---- MODULE Spec2Model ----
(***************************************************************************)
(* Model of the BrainVoyager (BV) header codec, src/nibabel/bv.py, and of  *)
(* the MINC header and its intensity normalisation, src/nifti/minc.py.     *)
(*                                                                         *)
(* Three specifications share the variables:                               *)
(*   Spec      the BV header object and its field / accessor operations    *)
(*   SpecIO    BV payload write (data_to_fileobj) and raw read             *)
(*   SpecMinc  MINC header construction and _normalize                     *)
(***************************************************************************)
EXTENDS Integers, Sequences, FiniteSets, TLC

VARIABLES hdr,      \* the BvFileHeader object (or NoHeader when construction raised)
          ret,      \* outcome of the last BV header operation
          fileobj,  \* the payload stream handed to the I/O routines
          io,       \* outcome of the last I/O operation
          minc,     \* the netcdf handle and the MINCHeader built on it
          mret      \* outcome of the last MINC operation

vars == <<hdr, ret, fileobj, io, minc, mret>>

(***************************************************************************)
(* Bounds of the model                                                     *)
(***************************************************************************)
MaxStrLen == 1      \* longest string value assigned to a string field

\* string bytes (0 is NUL, the padding and terminator byte)
Chars == {1, 2}
\* values held by the integer fields
Codes == {0, 1, 2}

(***************************************************************************)
(* Python values that reach the accessors: None, bool, int, float, str.    *)
(* bool is a subclass of int, and == compares bool, int and float by       *)
(* numeric value; n carries that value (True = 1, False = 0).              *)
(***************************************************************************)
PyNone == [t |-> "none", n |-> 0, s |-> <<>>]
PyBool(b) == [t |-> "bool", n |-> IF b THEN 1 ELSE 0, s |-> <<>>]
PyInt(i) == [t |-> "int", n |-> i, s |-> <<>>]
PyFloat(i) == [t |-> "float", n |-> i, s |-> <<>>]
PyStr(s) == [t |-> "str", n |-> 0, s |-> s]

IsNumber(v) == v.t \in {"bool", "int", "float"}

\* Python's a == b on the values above
PyEq(a, b) ==
    IF IsNumber(a) /\ IsNumber(b) THEN a.n = b.n
    ELSE a.t = b.t /\ a.s = b.s

Strings == UNION {[1..n -> Chars] : n \in 0..MaxStrLen}

(***************************************************************************)
(* The structured dtype of the header.  Field names in layout order; the   *)
(* string fields have a width that follows the stored value, the integer   *)
(* fields are one cell wide.  A dtype is a function from field name to     *)
(* width.                                                                  *)
(***************************************************************************)
Keys == <<"fmr", "prt", "datatype", "LRConvention">>
StrFields == {"fmr", "prt"}
KeySet == {Keys[i] : i \in 1..Len(Keys)}

\* template_dtype[item].type == np.string_
IsStringField(item) == item \in StrFields

RECURSIVE SumWidths(_, _)
SumWidths(dt, n) == IF n = 0 THEN 0 ELSE dt[Keys[n]] + SumWidths(dt, n - 1)

\* dtype.itemsize
ItemSize(dt) == SumWidths(dt, Len(Keys))

KeyIndex(item) == CHOOSE i \in 1..Len(Keys) : Keys[i] = item

\* byte offset of a field: the widths of the fields before it
Offset(dt, item) == SumWidths(dt, KeyIndex(item) - 1)

Zeros(n) == [i \in 1..n |-> 0]

\* reading an S field strips the trailing NUL padding
RECURSIVE Strip(_)
Strip(cells) ==
    IF cells = <<>> THEN <<>>
    ELSE IF cells[Len(cells)] = 0 THEN Strip(SubSeq(cells, 1, Len(cells) - 1))
    ELSE cells

\* writing an S field truncates to the field width and pads with NUL
Fit(s, w) == [i \in 1..w |-> IF i <= Len(s) THEN s[i] ELSE 0]

Cells(arr, item) ==
    SubSeq(arr.buf, Offset(arr.dtype, item) + 1,
           Offset(arr.dtype, item) + arr.dtype[item])

\* arr[item]
GetField(arr, item) ==
    IF IsStringField(item) THEN PyStr(Strip(Cells(arr, item)))
    ELSE PyInt(Cells(arr, item)[1])

\* can arr[item] = value be stored
Storable(item, value) ==
    IF IsStringField(item) THEN value.t = "str" ELSE value.t = "int"

\* arr[item] = value, for a storable value
SetField(arr, item, value) ==
    LET off == Offset(arr.dtype, item)
        w == arr.dtype[item]
        new == IF IsStringField(item) THEN Fit(value.s, w) ELSE <<value.n>>
    IN [arr EXCEPT !.buf = [i \in 1..Len(arr.buf) |->
                              IF i > off /\ i <= off + w THEN new[i - off]
                              ELSE arr.buf[i]]]

(***************************************************************************)
(* BvFileHeader: construction                                              *)
(***************************************************************************)
\* smallest position >= from holding NUL, or one past the end
FirstZero(block, from) ==
    IF \E i \in from..Len(block) : block[i] = 0
    THEN CHOOSE i \in from..Len(block) :
            block[i] = 0 /\ \A j \in from..(i - 1) : block[j] # 0
    ELSE Len(block) + 1

\* update_template_dtype(binaryblock): the layout the bytes describe; each
\* string field runs up to and including its NUL terminator
TemplateFromBlock(block) ==
    LET z1 == FirstZero(block, 1)
        z2 == FirstZero(block, z1 + 1)
    IN [fmr |-> z1, prt |-> z2 - z1, datatype |-> 1, LRConvention |-> 1]

\* update_template_dtype(None): every string field at its minimal width
DefaultTemplate == [fmr |-> 1, prt |-> 1, datatype |-> 1, LRConvention |-> 1]

\* update_template_dtype(item=item, value=value): item resized to hold value
TemplateResized(dt, item, value) == [dt EXCEPT ![item] = Len(value.s) + 1]

\* default_structarr(): zeroed array of the default layout
default_structarr ==
    [dtype |-> DefaultTemplate, buf |-> Zeros(ItemSize(DefaultTemplate))]

\* the on-disk bytes of a header holding these values
Serialize(fmr, prt, dt, lr) == fmr \o <<0>> \o prt \o <<0>> \o <<dt, lr>>

NoHeader ==
    [ok |-> FALSE, template_dtype |-> DefaultTemplate,
     structarr |-> default_structarr, data_offset |-> 0, shape |-> <<>>]

\* check_fix(): the consistency battery run on parse; an unknown left-right
\* convention is fatal
CheckFixRaises(arr) == GetField(arr, "LRConvention").n = 0

\* BvFileHeader.__init__(binaryblock, endianness, check); block = <<-1>>
\* stands for binaryblock=None
NoBlock == <<-1>>

BvInit(block, check) ==
    IF block = NoBlock
    THEN [NoHeader EXCEPT !.ok = TRUE]
    ELSE LET dt == TemplateFromBlock(block)
             arr == [dtype |-> dt, buf |-> SubSeq(block, 1, ItemSize(dt))]
         IN IF Len(block) < ItemSize(dt) THEN NoHeader
            ELSE IF check /\ CheckFixRaises(arr) THEN NoHeader
            ELSE [NoHeader EXCEPT !.ok = TRUE, !.template_dtype = dt,
                                  !.structarr = arr]

(***************************************************************************)
(* BvFileHeader.__setitem__                                                *)
(***************************************************************************)
\* for key in self.keys(): wstr[key] = self._structarr[key]
RECURSIVE CopyFields(_, _, _)
CopyFields(wstr, old, n) ==
    IF n = 0 THEN wstr
    ELSE SetField(CopyFields(wstr, old, n - 1), Keys[n], GetField(old, Keys[n]))

\* the rebuilt array: a zeroed buffer of the (updated) template layout with
\* every field copied by name from the old array
RebuildNoCopy(h) ==
    [dtype |-> h.template_dtype, buf |-> Zeros(ItemSize(h.template_dtype))]

RebuildKeepOld(h) == h.structarr

Rebuild(h) ==
    CopyFields([dtype |-> h.template_dtype,
                buf |-> Zeros(ItemSize(h.template_dtype))],
               h.structarr, Len(Keys))

\* header[item] = value; yields the error raised and the header left behind
SetItem(h, item, value) ==
    IF item \notin KeySet THEN [err |-> "KeyError", h |-> h]
    ELSE IF IsStringField(item)
    THEN LET h1 == [h EXCEPT !.template_dtype =
                                 TemplateResized(h.template_dtype, item, value)]
             h2 == [h1 EXCEPT !.structarr = Rebuild(h1)]
         IN [err |-> "none",
             h |-> [h2 EXCEPT !.structarr = SetField(h2.structarr, item, value)]]
    ELSE IF ~Storable(item, value) THEN [err |-> "ValueError", h |-> h]
    ELSE [err |-> "none",
          h |-> [h EXCEPT !.structarr = SetField(h.structarr, item, value)]]

\* header[item]
GetItem(h, item) == GetField(h.structarr, item)

(***************************************************************************)
(* Accessors of BvFileHeader                                               *)
(***************************************************************************)
\* data_type_codes = make_dt_codes(_dtdefs): code, label, dtype
DtDefs == {[code |-> 1, label |-> "short int", dtype |-> "uint16"],
           [code |-> 2, label |-> "float", dtype |-> "float32"]}

\* the keys the recoder accepts for a definition: its code, label and dtype
Aliases(d) == {PyInt(d.code), PyStr(d.label), PyStr(d.dtype)}

\* key in data_type_codes
Registered(key) == \E d \in DtDefs : \E a \in Aliases(d) : PyEq(a, key)

\* data_type_codes[key] and data_type_codes.dtype[key], for a registered key
CodeOf(key) == (CHOOSE d \in DtDefs : \E a \in Aliases(d) : PyEq(a, key)).code
DtypeOf(key) == (CHOOSE d \in DtDefs : \E a \in Aliases(d) : PyEq(a, key)).dtype

\* get_data_dtype(): the lookup in the dtype mapping is not guarded, so an
\* unregistered code surfaces as the mapping's own KeyError
get_data_dtype(h) ==
    LET code == GetItem(h, "datatype")
    IN IF Registered(code) THEN [err |-> "none", res |-> PyStr(DtypeOf(code))]
       ELSE [err |-> "KeyError", res |-> PyNone]

\* set_data_dtype(datatype)
set_data_dtype(h, datatype) ==
    IF ~Registered(datatype) THEN [err |-> "HeaderDataError", h |-> h]
    ELSE [err |-> "none",
          h |-> [h EXCEPT !.structarr =
                    SetField(h.structarr, "datatype", PyInt(CodeOf(datatype)))]]

\* get_xflip()
GetXflipDefaultFalse(h) ==
    LET xflip == GetItem(h, "LRConvention").n
    IN IF xflip = 1 THEN [err |-> "none", res |-> PyBool(TRUE)]
       ELSE [err |-> "none", res |-> PyBool(FALSE)]

get_xflip(h) ==
    LET xflip == GetItem(h, "LRConvention").n
    IN IF xflip = 1 THEN [err |-> "none", res |-> PyBool(TRUE)]
       ELSE IF xflip = 2 THEN [err |-> "none", res |-> PyBool(FALSE)]
       ELSE [err |-> "BvError", res |-> PyNone]

\* the convention code set_xflip stores: xflip == True, xflip == False, else
XflipCode(xflip) ==
    IF PyEq(xflip, PyBool(TRUE)) THEN 1
    ELSE IF PyEq(xflip, PyBool(FALSE)) THEN 2
    ELSE 0

\* set_xflip(xflip)
set_xflip(h, xflip) ==
    [h EXCEPT !.structarr =
        SetField(h.structarr, "LRConvention", PyInt(XflipCode(xflip)))]

\* get_slope_inter()
get_slope_inter(h) == <<PyNone, PyNone>>

\* the test of set_slope_inter: is (slope, inter) the identity scaling
SlopeOnlyIdentity(slope, inter) == slope.t = "none" \/ PyEq(slope, PyFloat(1))

IdentityScaling(slope, inter) ==
    /\ (slope.t = "none" \/ PyEq(slope, PyFloat(1)))
    /\ (inter.t = "none" \/ PyEq(inter, PyInt(0)))

\* set_slope_inter(slope, inter)
set_slope_inter(h, slope, inter) ==
    IF IdentityScaling(slope, inter) THEN [err |-> "none", h |-> h]
    ELSE [err |-> "HeaderTypeError", h |-> h]

(***************************************************************************)
(* Specification Spec: one BV header and the operations applied to it      *)
(***************************************************************************)
\* what the last operation was, what it was given, what it raised or
\* returned, and the header it was applied to
Outcome(op, item, arg, arg2, err, res, pre) ==
    [op |-> op, item |-> item, arg |-> arg, arg2 |-> arg2,
     err |-> err, res |-> res, pre |-> pre]

\* the idle values of the variables a specification does not use
IdleFileobj == <<>>
IdleIO == [op |-> "idle"]
IdleMinc == [state |-> "idle"]
IdleMret == [op |-> "idle"]

\* header bytes as read from a file: a serialised header, followed or not by
\* payload, or cut short
Blocks ==
    LET whole == {Serialize(f, p, d, l) :
                    f \in Strings, p \in Strings, d \in Codes, l \in Codes}
    IN whole \cup {b \o <<3>> : b \in whole}
             \cup {SubSeq(b, 1, Len(b) - 1) : b \in whole}

\* values offered to header[item] = value
ItemNames == KeySet \cup {"nosuch"}
ItemValues(item) ==
    IF IsStringField(item) THEN {PyStr(s) : s \in Strings}
    ELSE {PyInt(c) : c \in Codes} \cup {PyStr(<<1>>)}

XflipValues == {PyBool(TRUE), PyBool(FALSE), PyNone, PyInt(0), PyInt(1), PyInt(2)}
DtypeKeys == {PyInt(1), PyInt(2), PyInt(3), PyStr("short int"), PyStr("float"),
              PyStr("uint16"), PyStr("float32"), PyStr("int8")}
SlopeValues == {PyNone, PyFloat(1), PyInt(1), PyFloat(2)}
InterValues == {PyNone, PyFloat(0), PyFloat(1)}

Init ==
    /\ \E block \in Blocks \cup {NoBlock}, check \in BOOLEAN :
          LET h == BvInit(block, check)
          IN /\ hdr = h
             /\ ret = Outcome("init", "", PyNone, PyNone,
                              IF h.ok THEN "none" ELSE "raised", PyNone, NoHeader)
    /\ fileobj = IdleFileobj
    /\ io = IdleIO
    /\ minc = IdleMinc
    /\ mret = IdleMret

DoSetItem ==
    /\ hdr.ok
    /\ \E item \in ItemNames : \E value \in ItemValues(item) :
          LET r == SetItem(hdr, item, value)
          IN /\ hdr' = r.h
             /\ ret' = Outcome("setitem", item, value, PyNone, r.err, PyNone, hdr)
    /\ UNCHANGED <<fileobj, io, minc, mret>>

DoSetXflip ==
    /\ hdr.ok
    /\ \E xflip \in XflipValues :
          /\ hdr' = set_xflip(hdr, xflip)
          /\ ret' = Outcome("set_xflip", "", xflip, PyNone, "none", PyNone, hdr)
    /\ UNCHANGED <<fileobj, io, minc, mret>>

DoGetXflip ==
    /\ hdr.ok
    /\ hdr' = hdr
    /\ ret' = Outcome("get_xflip", "", PyNone, PyNone,
                      get_xflip(hdr).err, get_xflip(hdr).res, hdr)
    /\ UNCHANGED <<fileobj, io, minc, mret>>

DoSetDataDtype ==
    /\ hdr.ok
    /\ \E datatype \in DtypeKeys :
          /\ hdr' = set_data_dtype(hdr, datatype).h
          /\ ret' = Outcome("set_data_dtype", "", datatype, PyNone,
                            set_data_dtype(hdr, datatype).err, PyNone, hdr)
    /\ UNCHANGED <<fileobj, io, minc, mret>>

DoGetDataDtype ==
    /\ hdr.ok
    /\ hdr' = hdr
    /\ ret' = Outcome("get_data_dtype", "", PyNone, PyNone,
                      get_data_dtype(hdr).err, get_data_dtype(hdr).res, hdr)
    /\ UNCHANGED <<fileobj, io, minc, mret>>

DoSetSlopeInter ==
    /\ hdr.ok
    /\ \E slope \in SlopeValues, inter \in InterValues :
          /\ hdr' = set_slope_inter(hdr, slope, inter).h
          /\ ret' = Outcome("set_slope_inter", "", slope, inter,
                            set_slope_inter(hdr, slope, inter).err, PyNone, hdr)
    /\ UNCHANGED <<fileobj, io, minc, mret>>

DoGetSlopeInter ==
    /\ hdr.ok
    /\ hdr' = hdr
    /\ ret' = Outcome("get_slope_inter", "", PyNone, PyNone, "none",
                      get_slope_inter(hdr)[1], hdr)
    /\ UNCHANGED <<fileobj, io, minc, mret>>

Next ==
    \/ DoSetItem
    \/ DoSetXflip
    \/ DoGetXflip
    \/ DoSetDataDtype
    \/ DoGetDataDtype
    \/ DoSetSlopeInter
    \/ DoGetSlopeInter

Spec == Init /\ [][Next]_vars

(***************************************************************************)
(* Claims about the header operations (checked under Spec)                 *)
(***************************************************************************)
OtherFields(item) == KeySet \ {item}

\* C1: after header[f] = v on a string field f, with v shorter than, as long
\* as or longer than the current width of f, f reads back v and every other
\* field reads back the value it had before the set.
C1_ResizePreservesFields ==
    (ret.op = "setitem" /\ ret.err = "none" /\ IsStringField(ret.item)) =>
        /\ GetItem(hdr, ret.item) = ret.arg
        /\ \A g \in OtherFields(ret.item) : GetItem(hdr, g) = GetItem(ret.pre, g)

\* a string field was set to a value longer than its width while the other
\* string field and both integer fields held non-zero values
C1_Witness ==
    /\ ret.op = "setitem" /\ ret.err = "none" /\ ret.item = "fmr"
    /\ Len(ret.arg.s) + 1 > ret.pre.template_dtype["fmr"]
    /\ GetItem(ret.pre, "prt").s # <<>>
    /\ GetItem(ret.pre, "datatype").n # 0
    /\ GetItem(ret.pre, "LRConvention").n # 0
    /\ hdr.template_dtype # ret.pre.template_dtype

C3_SlopeInterIdentityOnly ==
    ret.op = "set_slope_inter" =>
        /\ ret.err = "none" <=>
              /\ (ret.arg.t = "none" \/ (IsNumber(ret.arg) /\ ret.arg.n = 1))
              /\ (ret.arg2.t = "none" \/ (IsNumber(ret.arg2) /\ ret.arg2.n = 0))
        /\ ret.err \in {"none", "HeaderTypeError"}
        /\ hdr = ret.pre
        /\ get_slope_inter(hdr) = <<PyNone, PyNone>>

\* an identity slope with a non-zero intercept was refused
C3_Witness ==
    /\ ret.op = "set_slope_inter" /\ ret.err = "HeaderTypeError"
    /\ ret.arg = PyFloat(1) /\ ret.arg2 = PyFloat(1)

\* C6: get_xflip returns True for a stored LRConvention of 1, False for 2,
\* raises BvError for 0 without returning a value, and leaves the header
\* unchanged.
C6_GetXflip ==
    ret.op = "get_xflip" =>
        LET lr == GetItem(ret.pre, "LRConvention").n
        IN /\ lr = 1 => (ret.err = "none" /\ ret.res = PyBool(TRUE))
           /\ lr = 2 => (ret.err = "none" /\ ret.res = PyBool(FALSE))
           /\ lr = 0 => (ret.err = "BvError" /\ ret.res = PyNone)
           /\ hdr = ret.pre

\* get_xflip was called on a header whose stored convention is 0
C6_Witness ==
    /\ ret.op = "get_xflip" /\ ret.err = "BvError"
    /\ GetItem(ret.pre, "LRConvention").n = 0

\* C7: set_xflip(v) stores 1 for boolean true, 2 for boolean false and 0 for
\* every other input, the integers 0, 1 and 2 included.
C7_SetXflipBoolOnly ==
    ret.op = "set_xflip" =>
        GetItem(hdr, "LRConvention").n =
            (IF ret.arg = PyBool(TRUE) THEN 1
             ELSE IF ret.arg = PyBool(FALSE) THEN 2
             ELSE 0)

\* C8: get_data_dtype raises HeaderDataError whenever the stored code is not
\* 1 or 2, and set_data_dtype with an unrecognised key raises HeaderDataError
\* and leaves the stored code unchanged.
C8_UnknownCodeIsDataError ==
    /\ (ret.op = "get_data_dtype" /\ GetItem(ret.pre, "datatype").n \notin {1, 2})
          => ret.err = "HeaderDataError"
    /\ (ret.op = "set_data_dtype"
          /\ ret.arg \notin {PyInt(1), PyInt(2), PyStr("short int"),
                             PyStr("float"), PyStr("uint16"), PyStr("float32")})
          => (ret.err = "HeaderDataError"
                /\ GetItem(hdr, "datatype") = GetItem(ret.pre, "datatype"))

(***************************************************************************)
(* Payload I/O: data_to_fileobj and raw_data_from_fileobj                  *)
(*                                                                         *)
(* An array is its shape and its element at every index tuple.  The stream *)
(* is counted in elements of the header's data type: one cell per element, *)
(* the data offset in cells.                                               *)
(***************************************************************************)
Shapes == {<<2>>, <<2, 2>>}
Elems == {0, 1}
Offsets == {0, 1}

Indices(shape) ==
    IF Len(shape) = 1 THEN {<<i>> : i \in 0..(shape[1] - 1)}
    ELSE {<<i, j>> : i \in 0..(shape[1] - 1), j \in 0..(shape[2] - 1)}

Size(shape) == IF Len(shape) = 1 THEN shape[1] ELSE shape[1] * shape[2]

Arrays == UNION {{[shape |-> sh, at |-> f] : f \in [Indices(sh) -> Elems]} :
                    sh \in Shapes}

NoArray == [shape |-> <<>>, at |-> <<>>]

\* position of an index tuple in the flattened array: 'C' is row-major (last
\* index fastest), 'F' column-major (first index fastest); counted from 1
FlatPos(shape, idx, order) ==
    IF Len(shape) = 1 THEN idx[1] + 1
    ELSE IF order = "C" THEN idx[1] * shape[2] + idx[2] + 1
    ELSE idx[2] * shape[1] + idx[1] + 1

\* the elements of an array in the given memory order
Flatten(arr, order) ==
    [k \in 1..Size(arr.shape) |->
        arr.at[CHOOSE idx \in Indices(arr.shape) :
                  FlatPos(arr.shape, idx, order) = k]]

\* the array of the given shape whose elements in the given order are flat
Unflatten(shape, flat, order) ==
    [shape |-> shape,
     at |-> [idx \in Indices(shape) |-> flat[FlatPos(shape, idx, order)]]]

\* data.astype(out_dtype): uint16 wraps, float32 holds the small integers
Cast(v, dtype) == IF dtype = "uint16" THEN v % 65536 ELSE v

\* fileobj.seek(offset)
SeekTell(f, offset) == [f EXCEPT !.pos = offset]

\* fileobj.write(cells) at the current position; a gap is zero filled
StreamWrite(f, cells) ==
    LET end == f.pos + Len(cells)
        n == IF end > Len(f.bytes) THEN end ELSE Len(f.bytes)
    IN [pos |-> end,
        bytes |-> [i \in 1..n |->
                     IF i > f.pos /\ i <= end THEN cells[i - f.pos]
                     ELSE IF i <= Len(f.bytes) THEN f.bytes[i]
                     ELSE 0]]

\* what make_array_writer hands back: a writer with the scaling it chose, or
\* a WriterError
WriterChoices ==
    {[err |-> "none", slope |-> PyFloat(1), inter |-> PyFloat(0)],
     [err |-> "none", slope |-> PyFloat(2), inter |-> PyFloat(0)],
     [err |-> "none", slope |-> PyFloat(1), inter |-> PyFloat(1)],
     [err |-> "WriterError", slope |-> PyNone, inter |-> PyNone]}

\* the order to_fileobj writes in when none is passed
WriterDefaultOrder == "F"

\* arr_writer.to_fileobj(fileobj, order): the data, unscaled by the writer's
\* slope and intercept and cast to the output type, in the given order
ToFileobj(f, data, dtype, w, order) ==
    StreamWrite(f, [k \in 1..Size(data.shape) |->
                      Cast((Flatten(data, order)[k] - w.inter.n) \div w.slope.n,
                           dtype)])

\* array_from_file(shape, dtype, fileobj, offset, order)
ArrayFromFile(shape, dtype, f, offset, order) ==
    IF offset + Size(shape) > Len(f.bytes)
    THEN [err |-> "IOError", arr |-> NoArray]
    ELSE [err |-> "none",
          arr |-> Unflatten(shape,
                            [k \in 1..Size(shape) |-> f.bytes[offset + k]],
                            order)]

\* get_data_shape(), get_data_offset()
get_data_shape(h) == h.shape
get_data_offset(h) == h.data_offset

\* raw_data_from_fileobj(fileobj)
raw_data_from_fileobj(h, f) ==
    LET dtype == get_data_dtype(h)
    IN IF dtype.err # "none" THEN [err |-> dtype.err, arr |-> NoArray]
       ELSE ArrayFromFile(get_data_shape(h), dtype.res.s, f,
                          get_data_offset(h), "C")

\* data_to_fileobj(data, fileobj), writer being what make_array_writer
\* returned: the error raised, the stream left behind, and how many seeks
\* and payload elements reached the stream before the error
data_to_fileobj(h, data, f, writer) ==
    LET out_dtype == get_data_dtype(h)
        seeked == SeekTell(f, get_data_offset(h))
        written == ToFileobj(seeked, data, out_dtype.res.s, writer,
                             WriterDefaultOrder)
    IN IF data.shape # get_data_shape(h)
       THEN [err |-> "HeaderDataError", f |-> f, seeks |-> 0, nwritten |-> 0]
       ELSE IF out_dtype.err # "none"
       THEN [err |-> out_dtype.err, f |-> f, seeks |-> 0, nwritten |-> 0]
       ELSE IF writer.err # "none"
       THEN [err |-> "HeaderTypeError", f |-> f, seeks |-> 0, nwritten |-> 0]
       ELSE [err |-> set_slope_inter(h, writer.slope, writer.inter).err,
             f |-> written, seeks |-> 1, nwritten |-> Size(data.shape)]

(***************************************************************************)
(* Specification SpecIO: one header, one stream, writes and raw reads      *)
(***************************************************************************)
InitStreams == {[pos |-> 0, bytes |-> <<>>], [pos |-> 0, bytes |-> <<1, 1>>]}

InitIO ==
    /\ \E d \in Codes, sh \in Shapes, off \in Offsets :
          hdr = [BvInit(Serialize(<<>>, <<>>, d, 1), TRUE) EXCEPT
                    !.shape = sh, !.data_offset = off]
    /\ ret = Outcome("init", "", PyNone, PyNone, "none", PyNone, NoHeader)
    /\ fileobj \in InitStreams
    /\ io = [op |-> "open", err |-> "none", arr |-> NoArray,
             writer |-> CHOOSE w \in WriterChoices : w.err # "none",
             seeks |-> 0, nwritten |-> 0, written |-> NoArray]
    /\ minc = IdleMinc
    /\ mret = IdleMret

\* written keeps the array of the last write that returned; a write that
\* raised leaves none
DoDataToFileobj ==
    /\ \E data \in Arrays, writer \in WriterChoices :
          LET r == data_to_fileobj(hdr, data, fileobj, writer)
          IN /\ fileobj' = r.f
             /\ io' = [op |-> "write", err |-> r.err,
                       arr |-> NoArray, writer |-> writer,
                       seeks |-> r.seeks, nwritten |-> r.nwritten,
                       written |-> IF r.err = "none" THEN data ELSE NoArray]
    /\ UNCHANGED <<hdr, ret, minc, mret>>

DoRawDataFromFileobj ==
    /\ LET r == raw_data_from_fileobj(hdr, fileobj)
       IN /\ fileobj' = IF r.err = "none"
                        THEN [fileobj EXCEPT
                                 !.pos = hdr.data_offset + Size(hdr.shape)]
                        ELSE fileobj
          /\ io' = [io EXCEPT !.op = "read", !.err = r.err, !.arr = r.arr]
    /\ UNCHANGED <<hdr, ret, minc, mret>>

NextIO ==
    \/ DoDataToFileobj
    \/ DoRawDataFromFileobj

SpecIO == InitIO /\ [][NextIO]_vars

\* C4: when the scaling the writer chose is refused by set_slope_inter, the
\* write raises HeaderTypeError before the stream is touched: no seek was
\* made and no payload element was written.
C4_AbortBeforeStream ==
    (io.op = "write" /\ io.writer.err = "none" /\ io.err = "HeaderTypeError") =>
        (io.seeks = 0 /\ io.nwritten = 0)

\* C5: a raw read that follows a write which returned, with the same header
\* on the same stream, yields the array that was written.
C5_RoundTrip ==
    (io.op = "read" /\ io.written # NoArray) =>
        (io.err = "none" /\ io.arr = io.written)

(***************************************************************************)
(* BvFileHeader.from_header: conversion from another header                *)
(***************************************************************************)
\* the header argument: None, a header of the class itself, a header of
\* another class with as_bv_map(), or one without.  dtype, shape and zooms
\* are what its get_data_dtype(), get_data_shape() and get_zooms() return
SourceHeader(kind, h, mapping, dtype, shape, zooms) ==
    [kind |-> kind, h |-> h, mapping |-> mapping, dtype |-> dtype,
     shape |-> shape, zooms |-> zooms]

\* what from_header raised or returned: the header, its zooms, and whether
\* _set_format_specifics() was called on it
Converted(err, h, zooms, specifics) ==
    [err |-> err, h |-> h, zooms |-> zooms, specifics |-> specifics]

\* set_data_shape(shape) of the concrete header class
set_data_shape(h, shape) == [h EXCEPT !.shape = shape]

\* for key, value in mapping.items(): obj[key] = value, with ValueError and
\* KeyError passed over
RECURSIVE ApplyMapping(_, _)
ApplyMapping(obj, mapping) ==
    IF mapping = <<>> THEN obj
    ELSE ApplyMapping(SetItem(obj, Head(mapping)[1], Head(mapping)[2]).h,
                      Tail(mapping))

\* _set_format_specifics(): nothing in this class
SetFormatSpecifics(obj) == obj

\* the most basic conversion followed by the format specifics
ConvertBasicThenSpecifics(obj, header) ==
    LET r == set_data_dtype(obj, header.dtype)
    IN IF r.err # "none" THEN Converted(r.err, NoHeader, <<>>, FALSE)
       ELSE Converted("none",
                      SetFormatSpecifics(set_data_shape(r.h, header.shape)),
                      header.zooms, TRUE)

\* the most basic conversion: data dtype, shape and zooms, then return obj
ConvertBasic(obj, header) ==
    LET r == set_data_dtype(obj, header.dtype)
    IN IF r.err # "none" THEN Converted(r.err, NoHeader, <<>>, FALSE)
       ELSE Converted("none", set_data_shape(r.h, header.shape),
                      header.zooms, FALSE)

\* the conversion from a field mapping
ConvertFromMapping(obj, header, check) ==
    LET mapped == SetFormatSpecifics(ApplyMapping(obj, header.mapping))
        r == set_data_dtype(mapped, header.dtype)
    IN IF r.err # "none" THEN Converted("HeaderDataError", NoHeader, <<>>, TRUE)
       ELSE IF check /\ CheckFixRaises(r.h.structarr)
       THEN Converted("raised", NoHeader, <<>>, TRUE)
       ELSE Converted("none", r.h, <<>>, TRUE)

\* klass.from_header(header, check)
from_header(header, check) ==
    IF header.kind = "own"
    THEN IF check /\ CheckFixRaises(header.h.structarr)
         THEN Converted("raised", NoHeader, <<>>, FALSE)
         ELSE Converted("none", header.h, <<>>, FALSE)
    ELSE LET obj == BvInit(NoBlock, check)
         IN IF header.kind = "none" THEN Converted("none", obj, <<>>, FALSE)
            ELSE IF header.kind = "plain" THEN ConvertBasic(obj, header)
            ELSE ConvertFromMapping(obj, header, check)

(***************************************************************************)
(* Specification SpecConv: one header argument and its conversion          *)
(***************************************************************************)
\* the dtypes other headers report
SourceDtypes == {PyStr("uint16"), PyStr("float32"), PyStr("int8")}

\* the zooms of a header of this shape
SourceZooms(shape) == {[i \in 1..Len(shape) |-> z] : z \in {1, 2}}

\* the fields other headers map: known and unknown names, values a field
\* can and cannot store
MapItems == {<<"fmr", PyStr(<<1>>)>>, <<"datatype", PyInt(2)>>,
             <<"datatype", PyStr(<<1>>)>>, <<"LRConvention", PyInt(1)>>,
             <<"nosuch", PyInt(1)>>}
Mappings == {<<>>} \cup {<<a>> : a \in MapItems}
                   \cup {<<a, b>> : a \in MapItems, b \in MapItems}

SourceHeaders ==
    {SourceHeader("none", NoHeader, <<>>, PyNone, <<>>, <<>>)}
    \cup {SourceHeader("own", BvInit(block, FALSE), <<>>, PyNone, <<>>, <<>>) :
            block \in {b \in Blocks : BvInit(b, FALSE).ok}}
    \cup {SourceHeader("plain", NoHeader, <<>>, dt, sh, zo) :
            dt \in SourceDtypes, sh \in Shapes,
            zo \in UNION {SourceZooms(x) : x \in Shapes}}
    \cup {SourceHeader("mapped", NoHeader, mp, dt, sh, <<>>) :
            mp \in Mappings, dt \in SourceDtypes, sh \in Shapes}

InitConv ==
    /\ hdr = NoHeader
    /\ \E header \in SourceHeaders :
          /\ header.kind = "plain" => Len(header.zooms) = Len(header.shape)
          /\ ret = [op |-> "source", header |-> header, check |-> FALSE,
                    err |-> "none", zooms |-> <<>>, specifics |-> FALSE]
    /\ fileobj = IdleFileobj
    /\ io = IdleIO
    /\ minc = IdleMinc
    /\ mret = IdleMret

\* klass.from_header(header, check)
DoFromHeader ==
    /\ ret.op = "source"
    /\ \E check \in BOOLEAN :
          LET r == from_header(ret.header, check)
          IN /\ hdr' = r.h
             /\ ret' = [ret EXCEPT !.op = "from_header", !.check = check,
                                   !.err = r.err, !.zooms = r.zooms,
                                   !.specifics = r.specifics]
    /\ UNCHANGED <<fileobj, io, minc, mret>>

NextConv == DoFromHeader

SpecConv == InitConv /\ [][NextConv]_vars

(***************************************************************************)
(* Claims about from_header (checked under SpecConv)                       *)
(***************************************************************************)
\* C12 as stated: from_header on a header of another format calls
\* _set_format_specifics before it returns, both when the header has
\* as_bv_map() and when it has not and only shape, data dtype and zooms are
\* copied.
C12_SpecificsOnEveryPath ==
    (ret.op = "from_header" /\ ret.err = "none"
        /\ ret.header.kind \in {"mapped", "plain"}) => ret.specifics

\* C12, amended: from_header on a header of another format calls
\* _set_format_specifics before it returns when the header has as_bv_map();
\* when it has not, it copies data dtype, shape and zooms onto a fresh header
\* and returns it without calling _set_format_specifics.
C12_SpecificsOnMappingPathOnly ==
    (ret.op = "from_header" /\ ret.err = "none") =>
        /\ ret.header.kind = "mapped" => ret.specifics
        /\ ret.header.kind = "plain" =>
              /\ ~ret.specifics
              /\ hdr.ok /\ hdr.shape = ret.header.shape
              /\ ret.zooms = ret.header.zooms
              /\ get_data_dtype(hdr).res = ret.header.dtype
              /\ \A k \in KeySet \ {"datatype"} :
                    GetItem(hdr, k) = GetItem(BvInit(NoBlock, FALSE), k)

\* both paths returned: a header without as_bv_map() was converted by the
\* basic copy
C12_Witness ==
    /\ ret.op = "from_header" /\ ret.err = "none"
    /\ ret.header.kind = "plain"
    /\ hdr.ok /\ hdr.shape = <<2, 2>> /\ ret.zooms = <<2, 2>>
    /\ get_data_dtype(hdr).res = PyStr("float32")

(***************************************************************************)
(* MINC: the netcdf handle, MINCHeader and _normalize                      *)
(***************************************************************************)
MaxDims == 3        \* most dimensions of the image variable

\* dimension variables of the file, by name, and their lengths
DimNames == <<"zspace", "yspace", "xspace", "time", "vector">>
DimLength(name) == IF name \in {"zspace", "yspace"} THEN 2 ELSE 1

\* s[:n] cut one short when n reaches the length of s
PrefixStrict(s, n) == SubSeq(s, 1, IF n < Len(s) THEN n ELSE Len(s) - 1)

\* s[:n]
Prefix(s, n) == SubSeq(s, 1, IF n < Len(s) THEN n ELSE Len(s))

\* variable.shape of a variable with these dimensions
ShapeOf(dims) == [i \in 1..Len(dims) |-> DimLength(dims[i])]

\* the index tuples of an array of this shape (lengths are at most 2)
MIndices(shape) ==
    {idx \in [1..Len(shape) -> {0, 1}] : \A i \in 1..Len(shape) : idx[i] < shape[i]}

\* an attribute of the image variable: absent, or present with its value
NoAttr == [present |-> FALSE, v |-> 0]
NoRangeAttr == [present |-> FALSE, v |-> <<0, 0>>]
Attr(v) == [present |-> TRUE, v |-> v]

\* _dt_dict and get_data_dtype: the data types of the image variable
MincDtypes == {"float32", "uint8", "int8"}

\* ddt.type in np.sctypes['float']
IsFloatType(ddt) == ddt = "float32"

\* np.iinfo(ddt.type)
IInfo(ddt) ==
    IF ddt = "uint8" THEN [min |-> 0, max |-> 255] ELSE [min |-> -128, max |-> 127]

\* MINCHeader.check_fix(): every dimension must be regularly spaced
CheckFixFirstDimOnly(file) == file.spacing[file.dimensions[1]] # "regular__"

CheckFixMinc(file) ==
    \E i \in 1..Len(file.dimensions) : file.spacing[file.dimensions[i]] # "regular__"

\* MINCHeader.__init__(mincfile, endianness, check): does construction raise
MincInitRaises(file, check) == check /\ CheckFixMinc(file)

\* _get_valid_range(): valid_range, else valid_min and valid_max, else the
\* range of the data type; refused when outside the range of the data type
ResolvedRangePairFirst(file) ==
    IF file.valid_min.present /\ file.valid_max.present
    THEN <<file.valid_min.v, file.valid_max.v>>
    ELSE IF file.valid_range.present THEN file.valid_range.v
    ELSE <<IInfo(file.dtype).min, IInfo(file.dtype).max>>

ResolvedRange(file) ==
    IF file.valid_range.present THEN file.valid_range.v
    ELSE IF file.valid_min.present /\ file.valid_max.present
    THEN <<file.valid_min.v, file.valid_max.v>>
    ELSE <<IInfo(file.dtype).min, IInfo(file.dtype).max>>

get_valid_range(file) ==
    LET vr == ResolvedRange(file)
        info == IInfo(file.dtype)
    IN IF vr[1] < info.min \/ vr[2] > info.max
       THEN [err |-> "ValueError", msg |-> "Valid range outside input data type range",
             range |-> <<0, 0>>]
       ELSE [err |-> "none", msg |-> "", range |-> vr]

\* np.clip(x, lo, hi)
Clip(x, lo, hi) == IF x < lo THEN lo ELSE IF x > hi THEN hi ELSE x

\* an element of the float output: the quotient num / den (den = 0 is the
\* inf or nan numpy yields for a division by zero)
Quot(num, den) == [num |-> num, den |-> den, set |-> TRUE]
\* an element of np.empty() not yet assigned
Unset == [num |-> 0, den |-> 0, set |-> FALSE]

\* _norm_slice without the np.clip of the slice
NormElemNoClip(x, imax, imin, vr) ==
    LET dmin == vr[1]
        dmax == vr[2]
    IN Quot(x * (imax - imin) + imin * (dmax - dmin) - dmin * (imax - imin),
            dmax - dmin)

\* _norm_slice for one element x of the slice at scaling index sdef
NormElem(x, imax, imin, vr) ==
    LET in_data == Clip(x, vr[1], vr[2])
        dmin == vr[1]
        dmax == vr[2]
    IN \* in_data * sc + (imin - dmin * sc), sc = (imax - imin) / (dmax - dmin)
       Quot(in_data * (imax - imin) + imin * (dmax - dmin) - dmin * (imax - imin),
            dmax - dmin)

\* the index values the loops over the scaling dimensions visit
LoopRangeShort(shape, axis) == 0..(shape[axis] - 2)

LoopRange(shape, axis) == 0..(shape[axis] - 1)

\* out_data after the loops over the first nscales dimensions of data
FillOut(file, data, vr, nscales) ==
    [idx \in DOMAIN data |->
        IF \A a \in 1..nscales : idx[a] \in LoopRange(ShapeOf(file.dimensions), a)
        THEN NormElem(data[idx], file.image_max.vals[Prefix(idx, nscales)],
                      file.image_min.vals[Prefix(idx, nscales)], vr)
        ELSE Unset]

NoData == <<>>

\* _normalize(data)
normalize(file, data) ==
    LET image_max == file.image_max
        image_min == file.image_min
        nscales == Len(image_max.dimensions)
        valid_range == get_valid_range(file)
    IN IF IsFloatType(file.dtype)
       THEN [err |-> "none", msg |-> "", out |-> data]
       ELSE IF image_max.dimensions # image_min.dimensions
       THEN [err |-> "ValueError",
             msg |-> "image-max and image-min do not have the same dimensions",
             out |-> NoData]
       ELSE IF image_max.dimensions # Prefix(file.dimensions, nscales)
       THEN [err |-> "MincError",
             msg |-> "image-max and image dimensions do not match",
             out |-> NoData]
       ELSE IF valid_range.err # "none"
       THEN [err |-> valid_range.err, msg |-> valid_range.msg, out |-> NoData]
       ELSE IF nscales = 1 \/ nscales = 2
       THEN [err |-> "none", msg |-> "",
             out |-> FillOut(file, data, valid_range.range, nscales)]
       ELSE [err |-> "MincError", msg |-> "More than two scaling dimensions",
             out |-> NoData]

(***************************************************************************)
(* Specification SpecMinc: a netcdf handle, the header built on it and the *)
(* normalisation of its data                                               *)
(***************************************************************************)
\* image.dimensions: the leading 1..MaxDims dimension names
ImageDims == {Prefix(DimNames, n) : n \in 1..MaxDims}

\* spacing attributes: all regular, or the last dimension irregular
Spacings(dims) ==
    {[name \in {dims[i] : i \in 1..Len(dims)} |-> "regular__"],
     [name \in {dims[i] : i \in 1..Len(dims)} |->
         IF name = dims[Len(dims)] THEN "irregular" ELSE "regular__"]}

\* dimension lists of image-max / image-min: the leading 0..MaxDims
\* dimensions, or a list that is no prefix of the image's
AuxDims == {Prefix(DimNames, n) : n \in 0..MaxDims} \cup {<<"yspace">>}

\* a dimension list as long as dims that differs from it in its last name
Renamed(dims) ==
    IF dims = <<>> THEN <<"zspace">>
    ELSE [i \in 1..Len(dims) |-> IF i = Len(dims) THEN "vector" ELSE dims[i]]

\* per-slice values: base at the first slice, base + step at the second
AuxArray(dims, base, step) ==
    [dimensions |-> dims,
     vals |-> [idx \in MIndices(ShapeOf(dims)) |->
                 base + (IF Len(idx) > 0 THEN step * idx[1] ELSE 0)]]

\* image-max: <<value at the first slice, step to the second slice>>
MaxScalings == {<<2, 0>>, <<2, 1>>, <<3, 0>>}

\* valid_range, valid_min and valid_max of the image variable
RangeAttrs == {[r |-> NoRangeAttr, lo |-> NoAttr, hi |-> NoAttr],
               [r |-> Attr(<<0, 2>>), lo |-> NoAttr, hi |-> NoAttr],
               [r |-> Attr(<<-200, 2>>), lo |-> NoAttr, hi |-> NoAttr],
               [r |-> NoRangeAttr, lo |-> Attr(1), hi |-> Attr(3)]}

MincFiles ==
    {[dimensions |-> dims, spacing |-> sp, dtype |-> ddt,
      valid_range |-> ra.r, valid_min |-> ra.lo, valid_max |-> ra.hi,
      image_max |-> AuxArray(maxdims, mx[1], mx[2]),
      image_min |-> AuxArray(mindims, minbase, 0)] :
        dims \in ImageDims, sp \in UNION {Spacings(d) : d \in ImageDims},
        ddt \in MincDtypes, ra \in RangeAttrs, maxdims \in AuxDims,
        mindims \in AuxDims \cup {Renamed(d) : d \in AuxDims},
        mx \in MaxScalings, minbase \in {0, 1}}

\* the spacing attributes are those of the image's dimensions; image-min
\* has the dimensions of image-max, or only zspace, or a renamed last one
WellFormed(file) ==
    /\ DOMAIN file.spacing = {file.dimensions[i] : i \in 1..Len(file.dimensions)}
    /\ file.image_min.dimensions \in
          {file.image_max.dimensions, <<"zspace">>,
           Renamed(file.image_max.dimensions)}

DataVals == {1, 3}
DataArrays(file) == [MIndices(ShapeOf(file.dimensions)) -> DataVals]

InitMinc ==
    /\ hdr = NoHeader
    /\ ret = Outcome("init", "", PyNone, PyNone, "raised", PyNone, NoHeader)
    /\ fileobj = IdleFileobj
    /\ io = IdleIO
    /\ \E file \in MincFiles :
          /\ WellFormed(file)
          /\ minc = [state |-> "file", file |-> file, check |-> FALSE]
    /\ mret = [op |-> "open", err |-> "none", msg |-> "", data |-> NoData,
               out |-> NoData]

\* MINCHeader(mincfile, check=check), also reached through from_fileobj
DoMincInit ==
    /\ minc.state = "file"
    /\ \E check \in BOOLEAN :
          minc' = [minc EXCEPT !.check = check,
                               !.state = IF MincInitRaises(minc.file, check)
                                         THEN "raised" ELSE "header"]
    /\ UNCHANGED <<hdr, ret, fileobj, io, mret>>

\* header._normalize(data)
DoNormalize ==
    /\ minc.state = "header"
    /\ \E data \in DataArrays(minc.file) :
          LET r == normalize(minc.file, data)
          IN mret' = [op |-> "normalize", err |-> r.err, msg |-> r.msg,
                      data |-> data, out |-> r.out]
    /\ UNCHANGED <<hdr, ret, fileobj, io, minc>>

NextMinc ==
    \/ DoMincInit
    \/ DoNormalize

SpecMinc == InitMinc /\ [][NextMinc]_vars

(***************************************************************************)
(* Specification SpecRange: headers over files with every combination of   *)
(* the valid_range, valid_min and valid_max attributes                     *)
(***************************************************************************)
\* attribute values inside the range of both integer types, below the
\* minimum of one or of both, and above the maximum of both
ValidRangeAttrs == {NoRangeAttr, Attr(<<0, 2>>), Attr(<<-200, 2>>),
                    Attr(<<0, 300>>)}
ValidMinAttrs == {NoAttr, Attr(1), Attr(-1), Attr(-200)}
ValidMaxAttrs == {NoAttr, Attr(3), Attr(300)}

\* files with image-max and image-min over zspace
RangeFiles ==
    {[dimensions |-> dims, spacing |-> sp, dtype |-> ddt,
      valid_range |-> vr, valid_min |-> lo, valid_max |-> hi,
      image_max |-> AuxArray(<<"zspace">>, 2, 0),
      image_min |-> AuxArray(<<"zspace">>, 0, 0)] :
        dims \in ImageDims, sp \in UNION {Spacings(d) : d \in ImageDims},
        ddt \in MincDtypes, vr \in ValidRangeAttrs, lo \in ValidMinAttrs,
        hi \in ValidMaxAttrs}

InitRange ==
    /\ hdr = NoHeader
    /\ ret = Outcome("init", "", PyNone, PyNone, "raised", PyNone, NoHeader)
    /\ fileobj = IdleFileobj
    /\ io = IdleIO
    /\ \E file \in RangeFiles :
          /\ WellFormed(file)
          /\ minc = [state |-> "file", file |-> file, check |-> FALSE]
    /\ mret = [op |-> "open", err |-> "none", msg |-> "", range |-> <<0, 0>>]

\* header._get_valid_range(), as _normalize calls it: past the return for
\* float data
DoGetValidRange ==
    /\ minc.state = "header"
    /\ ~IsFloatType(minc.file.dtype)
    /\ LET r == get_valid_range(minc.file)
       IN mret' = [op |-> "get_valid_range", err |-> r.err, msg |-> r.msg,
                   range |-> r.range]
    /\ UNCHANGED <<hdr, ret, fileobj, io, minc>>

NextRange ==
    \/ DoMincInit
    \/ DoGetValidRange

SpecRange == InitRange /\ [][NextRange]_vars

(***************************************************************************)
(* Claims about the valid range (checked under SpecRange)                  *)
(***************************************************************************)
\* C14: _get_valid_range takes the valid_range attribute if the image has
\* one; else the pair (valid_min, valid_max) if it has both; else the minimum
\* and maximum of the data type.  Whichever it took, it raises the range error
\* if the minimum is below the type's minimum or the maximum above the type's
\* maximum, and otherwise returns the pair as taken.
C14_ValidRangeResolution ==
    mret.op = "get_valid_range" =>
        LET f == minc.file
            info == IInfo(f.dtype)
            resolved == IF f.valid_range.present THEN f.valid_range.v
                        ELSE IF f.valid_min.present /\ f.valid_max.present
                        THEN <<f.valid_min.v, f.valid_max.v>>
                        ELSE <<info.min, info.max>>
        IN IF resolved[1] < info.min \/ resolved[2] > info.max
           THEN /\ mret.err = "ValueError"
                /\ mret.msg = "Valid range outside input data type range"
           ELSE mret.err = "none" /\ mret.range = resolved

\* an image with all three attributes: the valid_range attribute was returned,
\* not the pair, although the pair lies within the type as well
C14_Witness ==
    /\ mret.op = "get_valid_range" /\ mret.err = "none"
    /\ minc.file.valid_range.present /\ minc.file.valid_range.v = <<0, 2>>
    /\ minc.file.valid_min.present /\ minc.file.valid_min.v = 1
    /\ minc.file.valid_max.present /\ minc.file.valid_max.v = 3
    /\ mret.range = <<0, 2>>

(***************************************************************************)
(* Claims about the MINC header (checked under SpecMinc)                   *)
(***************************************************************************)
Irregular(file) ==
    \E i \in 1..Len(file.dimensions) :
        file.spacing[file.dimensions[i]] # "regular__"

\* C9 as stated: whatever the check argument, construction on a file with an
\* irregularly spaced dimension raises and yields no header.
C9_IrregularAlwaysRejected ==
    minc.state = "header" => ~Irregular(minc.file)

\* C9, amended: construction with check true (the default) raises on a file
\* with an irregularly spaced dimension and yields no header.
C9_IrregularRejectedWhenChecked ==
    (minc.state # "file" /\ minc.check /\ Irregular(minc.file)) =>
        minc.state = "raised"

\* a checked construction raised on a file whose first dimension is regular
\* and whose last is not
C9_Witness ==
    /\ minc.state = "raised" /\ minc.check
    /\ Len(minc.file.dimensions) >= 2
    /\ minc.file.spacing[minc.file.dimensions[1]] = "regular__"
    /\ Irregular(minc.file)

ScalingRank(file) == Len(file.image_max.dimensions)

BothRank(file) ==
    Len(file.image_min.dimensions) = Len(file.image_max.dimensions)

Filled(out, data) ==
    /\ DOMAIN out = DOMAIN data
    /\ \A idx \in DOMAIN data : out[idx].set

RangeWithinType(file) ==
    /\ ResolvedRange(file)[1] >= IInfo(file.dtype).min
    /\ ResolvedRange(file)[2] <= IInfo(file.dtype).max

ScalingIsValidRange(file) ==
    /\ \A idx \in DOMAIN file.image_min.vals :
          file.image_min.vals[idx] = ResolvedRange(file)[1]
    /\ \A idx \in DOMAIN file.image_max.vals :
          file.image_max.vals[idx] = ResolvedRange(file)[2]

\* the float x equals the integer n
IsValue(x, n) == x.set /\ x.den # 0 /\ x.num = n * x.den

DimensionMismatch(r) ==
    \/ /\ r.err = "ValueError"
       /\ r.msg = "image-max and image-min do not have the same dimensions"
    \/ /\ r.err = "MincError"
       /\ r.msg = "image-max and image dimensions do not match"

\* dims is the first n names of the image's dimension list, for some n from
\* least to most
LeadingPrefix(dims, imgdims, least, most) ==
    \E n \in least..most : n <= Len(imgdims) /\ dims = SubSeq(imgdims, 1, n)

\* C13 as stated: on an integer image _normalize fails with a dimension
\* mismatch unless the dimension lists of image-max and image-min are the
\* same and a strict leading prefix of the image's dimension list; lists equal
\* to the image's whole dimension list are rejected.
C13_StrictPrefixOrMismatch ==
    (mret.op = "normalize" /\ ~IsFloatType(minc.file.dtype)) =>
        LET f == minc.file
        IN ~(/\ f.image_max.dimensions = f.image_min.dimensions
             /\ LeadingPrefix(f.image_max.dimensions, f.dimensions,
                              0, Len(f.dimensions) - 1))
              => DimensionMismatch(mret)

\* C13, amended: on an integer image _normalize fails with a dimension
\* mismatch exactly when the dimension lists of image-max and image-min
\* differ (ValueError) or are not a leading prefix of the image's dimension
\* list (MincError); the image's whole dimension list counts as a leading
\* prefix and is not rejected for its dimensions.
C13_PrefixOrMismatch ==
    (mret.op = "normalize" /\ ~IsFloatType(minc.file.dtype)) =>
        LET f == minc.file
            same == f.image_max.dimensions = f.image_min.dimensions
            prefix == LeadingPrefix(f.image_max.dimensions, f.dimensions,
                                    0, Len(f.dimensions))
        IN /\ DimensionMismatch(mret) <=> ~(same /\ prefix)
           /\ ~same => mret.err = "ValueError"
           /\ (same /\ ~prefix) => mret.err = "MincError"

\* image-max and image-min over both dimensions of a two-dimensional image
\* were accepted and the data normalised
C13_Witness ==
    /\ mret.op = "normalize" /\ mret.err = "none"
    /\ ~IsFloatType(minc.file.dtype)
    /\ Len(minc.file.dimensions) = 2
    /\ minc.file.image_max.dimensions = minc.file.dimensions
    /\ minc.file.image_min.dimensions = minc.file.dimensions
    /\ Filled(mret.out, mret.data)

====
